---- MODULE Spec2Model ----
(***************************************************************************)
(* JenkDeHasher: the Jenkins one-at-a-time hasher (joaat_hash, memoized),  *)
(* the nametable built from it, the token substitution of one file and the *)
(* thread-pool batch run started from main.                                *)
(*                                                                         *)
(* Text is a sequence of code points.  Python integers are unbounded, so   *)
(* a number is a sequence of bits, least significant first, of any length; *)
(* "& 0xFFFFFFFF" keeps the low 32 of them.                                *)
(***************************************************************************)
EXTENDS Integers, Sequences, FiniteSets, TLC

\* ------------------------------------------------------------------ bounds
MaxLen == 3
MaxCalls == 2
MaxLines == 2
MaxFiles == 3
MaxWorkers == 2

\* --------------------------------------------------- unbounded bit numbers
RECURSIVE ToBits(_)
\* the binary digits of a natural number, least significant first
ToBits(n) == IF n = 0 THEN <<>> ELSE <<n % 2>> \o ToBits(n \div 2)

BitAt(b, k) == IF k <= Len(b) THEN b[k] ELSE 0

RECURSIVE AddCarry(_, _, _, _)
AddCarry(a, b, k, carry) ==
    IF k > Len(a) /\ k > Len(b)
    THEN IF carry = 1 THEN <<1>> ELSE <<>>
    ELSE LET s == BitAt(a, k) + BitAt(b, k) + carry
         IN  <<s % 2>> \o AddCarry(a, b, k + 1, s \div 2)

\* a + b
Add(a, b) == AddCarry(a, b, 1, 0)

\* a << n
Shl(a, n) == [k \in 1..n |-> 0] \o a

\* a >> n
Shr(a, n) == IF n >= Len(a) THEN <<>> ELSE SubSeq(a, n + 1, Len(a))

\* a ^ b
Xor(a, b) ==
    LET m == IF Len(a) > Len(b) THEN Len(a) ELSE Len(b)
    IN  [k \in 1..m |-> (BitAt(a, k) + BitAt(b, k)) % 2]

\* a & 0xFFFFFFFF
Mask32(a) == [k \in 1..32 |-> BitAt(a, k)]

\* 0 <= a < 2^32
InRange32(a) == \A k \in 1..Len(a) : k > 32 => a[k] = 0

\* ------------------------------------------------------------- joaat_hash
\* joaat_hash without the call of lower()
lower_Unchanged(text) == text

\* str.lower() on the code points of the model's alphabet (ASCII)
lower(text) ==
    [k \in 1..Len(text) |->
        IF text[k] \in 65..90 THEN text[k] + 32 ELSE text[k]]

\* hash_value = (hash_value + ord(char)) & 0xFFFFFFFF
Line25(h, char) == Mask32(Add(h, ToBits(char)))
\* line 26 without its mask
Line26_NoMask(h) == Add(h, Shl(h, 10))

\* hash_value = (hash_value + (hash_value << 10)) & 0xFFFFFFFF
Line26(h) == Mask32(Add(h, Shl(h, 10)))
\* hash_value = (hash_value ^ (hash_value >> 6)) & 0xFFFFFFFF
Line27(h) == Mask32(Xor(h, Shr(h, 6)))
\* hash_value = (hash_value + (hash_value << 3)) & 0xFFFFFFFF
Line29(h) == Mask32(Add(h, Shl(h, 3)))
\* hash_value = (hash_value ^ (hash_value >> 11)) & 0xFFFFFFFF
Line30(h) == Mask32(Xor(h, Shr(h, 11)))
\* hash_value = (hash_value + (hash_value << 15)) & 0xFFFFFFFF
Line31(h) == Mask32(Add(h, Shl(h, 15)))

\* "hash_"
hash_prefix == <<104, 97, 115, 104, 95>>

\* one digit of the X presentation type: 0-9, A-F
HexUpper(d) == IF d < 10 THEN 48 + d ELSE 55 + d

RECURSIVE HexDigits(_, _)
\* the digits of format(h, "X"), most significant first, from nibble k up
HexDigits(h, k) ==
    IF 4 * (k - 1) >= Len(h) THEN <<>>
    ELSE HexDigits(h, k + 1) \o
         <<HexUpper(BitAt(h, 4*k - 3) + 2 * BitAt(h, 4*k - 2)
                    + 4 * BitAt(h, 4*k - 1) + 8 * BitAt(h, 4*k))>>

RECURSIVE StripZeros(_)
StripZeros(d) ==
    IF Len(d) > 1 /\ d[1] = 48 THEN StripZeros(Tail(d)) ELSE d

\* f"hash_{hash_value:08X}": at least 8 digits, zero-padded on the left
Line33(h) ==
    LET d == StripZeros(IF Len(h) = 0 THEN <<48>> ELSE HexDigits(h, 1))
    IN  hash_prefix \o [k \in 1..(IF Len(d) < 8 THEN 8 - Len(d) ELSE 0) |-> 48] \o d

RECURSIVE HashLoop(_, _, _)
\* the for loop of joaat_hash from character i on
HashLoop(h, text, i) ==
    IF i > Len(text) THEN h
    ELSE HashLoop(Line27(Line26(Line25(h, text[i]))), text, i + 1)

\* the body of joaat_hash (what a cache miss computes and every hit returns)
joaat_hash(text) ==
    Line33(Line31(Line30(Line29(HashLoop(<<>>, lower(text), 1)))))

\* lru_cache(maxsize=1024)
maxsize == 1024

\* the cache is a sequence of <<text, result>>, least recently used first
CacheFind(c, text) == {k \in 1..Len(c) : c[k][1] = text}

\* a hit moves the entry to the most recently used end
CacheHit(c, text) ==
    LET k == CHOOSE j \in CacheFind(c, text) : TRUE
    IN  SubSeq(c, 1, k - 1) \o SubSeq(c, k + 1, Len(c)) \o <<c[k]>>

\* a miss stores the result, evicting the least recently used entry when full
CacheMiss(c, text, result) ==
    IF Len(c) >= maxsize THEN Append(Tail(c), <<text, result>>)
    ELSE Append(c, <<text, result>>)

\* the cache after one whole call joaat_hash(text)
CacheAfterCall(c, text) ==
    IF CacheFind(c, text) # {} THEN CacheHit(c, text)
    ELSE CacheMiss(c, text, joaat_hash(text))

\* what the call joaat_hash(text) returns with the cache as it is
CachedCall(c, text) ==
    IF CacheFind(c, text) # {}
    THEN c[CHOOSE j \in CacheFind(c, text) : TRUE][2]
    ELSE joaat_hash(text)

\* ------------------------------------------------- nametable, substitution
\* the characters str.strip() removes (ASCII part)
IsSpace(c) == c \in {9, 10, 11, 12, 13, 28, 29, 30, 31, 32}

RECURSIVE lstrip(_)
lstrip(s) == IF Len(s) > 0 /\ IsSpace(s[1]) THEN lstrip(Tail(s)) ELSE s

RECURSIVE rstrip(_)
rstrip(s) ==
    IF Len(s) > 0 /\ IsSpace(s[Len(s)]) THEN rstrip(SubSeq(s, 1, Len(s) - 1)) ELSE s

\* line.strip()
strip(s) == rstrip(lstrip(s))

\* an insertion that keeps the entry a key already has
Put_KeepFirst(d, key, value) ==
    [x \in DOMAIN d \cup {key} |-> IF x \in DOMAIN d THEN d[x] ELSE value]

\* d[key] = value
Put(d, key, value) ==
    [x \in DOMAIN d \cup {key} |-> IF x = key THEN value ELSE d[x]]

RECURSIVE CacheAfterLoad(_, _, _)
\* the cache after the calls of joaat_hash that load_nametable makes for the
\* lines from k on
CacheAfterLoad(srclines, k, c) ==
    IF k > Len(srclines) THEN c
    ELSE IF strip(srclines[k]) = <<>>
         THEN CacheAfterLoad(srclines, k + 1, c)
         ELSE CacheAfterLoad(srclines, k + 1, CacheAfterCall(c, strip(srclines[k])))

RECURSIVE BuildTable(_, _, _, _)
\* the dict comprehension of load_nametable over the lines from k on, with
\* the cache c the calls of joaat_hash go through
BuildTable(srclines, k, d, c) ==
    IF k > Len(srclines) THEN d
    ELSE IF strip(srclines[k]) = <<>>
         THEN BuildTable(srclines, k + 1, d, c)
         ELSE BuildTable(srclines, k + 1,
                         Put(d, CachedCall(c, strip(srclines[k])), strip(srclines[k])),
                         CacheAfterCall(c, strip(srclines[k])))

\* [0-9A-Fa-f]
IsHex(c) == c \in (48..57) \cup (65..70) \cup (97..102)

\* hash_pattern, r"hash_[0-9A-Fa-f]{8}", matches content at position k
MatchAt(content, k) ==
    /\ k + 12 <= Len(content)
    /\ SubSeq(content, k, k + 4) = hash_prefix
    /\ \A j \in (k + 5)..(k + 12) : IsHex(content[j])

\* tok with its hexadecimal letters in upper case
UpperHex(tok) ==
    [k \in 1..Len(tok) |-> IF k > 5 /\ tok[k] \in 97..102 THEN tok[k] - 32 ELSE tok[k]]

\* a lookup that upper-cases the matched text first
Lookup_UpperCased(d, tok) ==
    IF UpperHex(tok) \in DOMAIN d THEN d[UpperHex(tok)] ELSE tok

\* self.nametable.get(m.group(0), m.group(0))
Lookup(d, tok) == IF tok \in DOMAIN d THEN d[tok] ELSE tok

RECURSIVE SubFrom(_, _, _)
\* hash_pattern.sub(...) from position k on: leftmost match, then on after it
SubFrom(content, d, k) ==
    IF k > Len(content) THEN <<>>
    ELSE IF MatchAt(content, k)
         THEN Lookup(d, SubSeq(content, k, k + 12)) \o SubFrom(content, d, k + 13)
         ELSE <<content[k]>> \o SubFrom(content, d, k + 1)

\* new_content of process_xml_file
Substitute(content, d) == SubFrom(content, d, 1)

\* a file written whether or not its content changed
Changed_Always(new, old) == TRUE

\* new_content != content
Changed(new, old) == new # old

\* ------------------------------------------------------------------ inputs
\* "A" and "a": the texts joaat_hash is called with are made of them
HashAlphabet == {65, 97}
HashInputs == UNION {[1..k -> HashAlphabet] : k \in 0..MaxLen}

\* lines of a nametable file as iteration yields them: "a\n", "A\n", " b \n",
\* "\n" and a last line "b" without its newline
RawLines == {<<97, 10>>, <<65, 10>>, <<32, 98, 32, 10>>, <<10>>, <<98>>}
SourceLists == UNION {[1..k -> RawLines] : k \in 0..MaxLines}

TokA == joaat_hash(<<97>>)
TokB == joaat_hash(<<98>>)

\* tok with its hexadecimal letters in lower case
LowerHex(tok) ==
    [k \in 1..Len(tok) |-> IF k > 5 /\ tok[k] \in 65..70 THEN tok[k] + 32 ELSE tok[k]]

\* a token and its near-matches: the token, "<token>", lower-case digits,
\* a 9th digit "5", 7 digits, "G" among the digits, the prefix "HASH_"
Variants(tok) ==
    { tok,
      <<60>> \o tok \o <<62>>,
      LowerHex(tok),
      tok \o <<53>>,
      SubSeq(tok, 1, 12),
      [tok EXCEPT ![9] = 71],
      <<72, 65, 83, 72, 95>> \o SubSeq(tok, 6, 13) }

\* what a target file may hold; <<97, 98>> is "ab"
FileContents == Variants(TokA) \cup Variants(TokB) \cup {<<>>, <<97, 98>>, TokA \o TokB}

Paths == {"p1.ytyp.xml", "p2.ymap.xml"}
Modes == {"rw", "ro", "missing"}
Sources == {"ok", "unreadable", "none"}
FileLists == UNION {[1..k -> Paths] : k \in 0..MaxFiles}

\* the nametable and the files of the batch runs: "a\n" alone is loaded, so
\* TokA is a known token and TokB an unknown one; "ab" holds no token
RunSourceLists == {<<<<97, 10>>>>}
RunContents == {TokA, <<60>> \o TokB \o <<62>>, <<97, 98>>}

\* ------------------------------------------------------------------- state
VARIABLES
    cache,        \* the lru_cache of joaat_hash
    hpc,          \* the line a running call of joaat_hash is at, or "idle"
    htext,        \* its argument text
    hchars,       \* text.lower(), the string the loop iterates
    hi,           \* the index of the loop's next character
    hash_value,   \* its accumulator
    hret,         \* <<text, result>> of every call that has returned
    calls,        \* the number of calls made
    source,       \* the nametable file: "ok", "unreadable", "none" selected
    lines,        \* its lines
    xml_files,    \* the paths selected, in order
    max_workers,  \* the pool size of ThreadPoolExecutor()
    mode,         \* each target file: "rw", "ro" (not writable), "missing"
    disk,         \* each target file's content on disk
    disk0,        \* the content each target file had at the start
    pc,           \* where main is
    nametable,    \* processor.nametable
    loaded,       \* load_nametable has returned normally
    tasks,        \* one record per submitted call of process_xml_file
    nxt,          \* the index of the future the result iterator waits for
    raised,       \* the result iterator has raised a task's exception
    reads,        \* the paths opened for reading so far
    writes        \* the paths whose opening for writing was tried so far

hvars == <<cache, hpc, htext, hchars, hi, hash_value, hret, calls>>
envvars == <<source, lines, xml_files, max_workers, mode, disk0>>
runvars == <<disk, pc, nametable, loaded, tasks, nxt, raised, reads, writes>>
vars == <<hvars, envvars, runvars>>

HashIdle ==
    /\ cache = <<>>
    /\ hpc = "idle"
    /\ htext = <<>>
    /\ hchars = <<>>
    /\ hi = 1
    /\ hash_value = <<>>
    /\ hret = {}
    /\ calls = 0

RunStart ==
    /\ disk0 = disk
    /\ pc = "start"
    /\ nametable = <<>>
    /\ loaded = FALSE
    /\ tasks = <<>>
    /\ nxt = 1
    /\ raised = FALSE
    /\ reads = {}
    /\ writes = {}

\* main about to run on any selection of batch files and any pool size
Init ==
    /\ HashIdle
    /\ source \in Sources
    /\ lines \in RunSourceLists
    /\ xml_files \in FileLists
    /\ max_workers \in 1..MaxWorkers
    /\ mode \in [Paths -> Modes]
    /\ disk \in [Paths -> RunContents]
    /\ RunStart

\* main about to run on one file of any content and any nametable
InitFile ==
    /\ HashIdle
    /\ source \in Sources
    /\ lines \in SourceLists
    /\ xml_files = <<"p1.ytyp.xml">>
    /\ max_workers = 1
    /\ mode \in [Paths -> Modes] /\ mode["p2.ymap.xml"] = "missing"
    /\ disk \in [Paths -> FileContents] /\ disk["p2.ymap.xml"] = <<>>
    /\ RunStart

\* joaat_hash alone, called from outside main
InitHash ==
    /\ HashIdle
    /\ source = "none"
    /\ lines = <<>>
    /\ xml_files = <<>>
    /\ max_workers = 1
    /\ mode = [p \in Paths |-> "missing"]
    /\ disk = [p \in Paths |-> <<>>]
    /\ RunStart

\* ------------------------------------------------- joaat_hash, step by step
\* a call: the lru_cache wrapper returns a stored result, or enters the body
Call(text) ==
    /\ hpc = "idle"
    /\ calls < MaxCalls
    /\ calls' = calls + 1
    /\ IF CacheFind(cache, text) # {}
       THEN /\ hret' = hret \cup {<<text, CachedCall(cache, text)>>}
            /\ cache' = CacheHit(cache, text)
            /\ UNCHANGED <<hpc, htext, hchars, hi, hash_value>>
       ELSE /\ htext' = text
            /\ hchars' = lower(text)
            /\ hi' = 1
            /\ hash_value' = <<>>
            /\ hpc' = IF Len(lower(text)) = 0 THEN "line29" ELSE "line25"
            /\ UNCHANGED <<cache, hret>>
    /\ UNCHANGED <<envvars, runvars>>

Step25 ==
    /\ hpc = "line25"
    /\ hash_value' = Line25(hash_value, hchars[hi])
    /\ hpc' = "line26"
    /\ UNCHANGED <<cache, htext, hchars, hi, hret, calls, envvars, runvars>>

Step26 ==
    /\ hpc = "line26"
    /\ hash_value' = Line26(hash_value)
    /\ hpc' = "line27"
    /\ UNCHANGED <<cache, htext, hchars, hi, hret, calls, envvars, runvars>>

Step27 ==
    /\ hpc = "line27"
    /\ hash_value' = Line27(hash_value)
    /\ hi' = hi + 1
    /\ hpc' = IF hi + 1 > Len(hchars) THEN "line29" ELSE "line25"
    /\ UNCHANGED <<cache, htext, hchars, hret, calls, envvars, runvars>>

Step29 ==
    /\ hpc = "line29"
    /\ hash_value' = Line29(hash_value)
    /\ hpc' = "line30"
    /\ UNCHANGED <<cache, htext, hchars, hi, hret, calls, envvars, runvars>>

Step30 ==
    /\ hpc = "line30"
    /\ hash_value' = Line30(hash_value)
    /\ hpc' = "line31"
    /\ UNCHANGED <<cache, htext, hchars, hi, hret, calls, envvars, runvars>>

Step31 ==
    /\ hpc = "line31"
    /\ hash_value' = Line31(hash_value)
    /\ hpc' = "line33"
    /\ UNCHANGED <<cache, htext, hchars, hi, hret, calls, envvars, runvars>>

\* return f"hash_{hash_value:08X}", which the wrapper stores
Step33 ==
    /\ hpc = "line33"
    /\ hret' = hret \cup {<<htext, Line33(hash_value)>>}
    /\ cache' = CacheMiss(cache, htext, Line33(hash_value))
    /\ hpc' = "idle"
    /\ UNCHANGED <<htext, hchars, hi, hash_value, calls, envvars, runvars>>

NextHash ==
    \/ \E text \in HashInputs : Call(text)
    \/ Step25
    \/ Step26
    \/ Step27
    \/ Step29
    \/ Step30
    \/ Step31
    \/ Step33

SpecHash == InitHash /\ [][NextHash]_vars

\* -------------------------------------------------------------------- main
\* a dialog was cancelled: main logs and returns (lines 98-100, 107-109)
main_no_selection ==
    /\ pc = "start"
    /\ source = "none" \/ xml_files = <<>>
    /\ pc' = "returned"
    /\ UNCHANGED <<hvars, envvars, disk, nametable, loaded, tasks, nxt, raised,
                   reads, writes>>

\* processor.load_nametable(...) returns: the dict is built and assigned
load_nametable ==
    /\ pc = "start"
    /\ source = "ok" /\ xml_files # <<>>
    /\ nametable' = BuildTable(lines, 1, <<>>, cache)
    /\ cache' = CacheAfterLoad(lines, 1, cache)
    /\ loaded' = TRUE
    /\ pc' = "process_files"
    /\ UNCHANGED <<hpc, htext, hchars, hi, hash_value, hret, calls, envvars,
                   disk, tasks, nxt, raised, reads, writes>>

\* load_nametable logging the error without re-raising it
load_nametable_raises_Swallowed ==
    /\ pc = "start"
    /\ source = "unreadable" /\ xml_files # <<>>
    /\ pc' = "process_files"
    /\ UNCHANGED <<hvars, envvars, disk, nametable, loaded, tasks, nxt, raised,
                   reads, writes>>

\* open or decoding fails: load_nametable logs and re-raises, main's except
\* clause shows the error
load_nametable_raises ==
    /\ pc = "start"
    /\ source = "unreadable" /\ xml_files # <<>>
    /\ pc' = "error"
    /\ UNCHANGED <<hvars, envvars, disk, nametable, loaded, tasks, nxt, raised,
                   reads, writes>>

\* every call given the first path
TaskPath_First(i) == xml_files[1]

\* the path the i-th call of process_xml_file is given
TaskPath(i) == xml_files[i]

\* process_files: executor.map submits one future per path, in order
process_files ==
    /\ pc = "process_files"
    /\ tasks' = [i \in 1..Len(xml_files) |->
                    [future |-> "PENDING", at |-> "idle", content |-> <<>>,
                     new_content |-> <<>>, outcome |-> "none"]]
    /\ nxt' = 1
    /\ pc' = "collect"
    /\ UNCHANGED <<hvars, envvars, disk, nametable, loaded, raised, reads, writes>>

Running == {i \in 1..Len(tasks) : tasks[i].future = "RUNNING"}

\* a free worker thread takes the oldest work item still pending and runs it
worker_run(i) ==
    /\ pc \in {"collect", "shutdown"}
    /\ i \in 1..Len(tasks)
    /\ tasks[i].future = "PENDING"
    /\ \A j \in 1..(i - 1) : tasks[j].future # "PENDING"
    /\ Cardinality(Running) < max_workers
    /\ tasks' = [tasks EXCEPT ![i].future = "RUNNING", ![i].at = "read"]
    /\ UNCHANGED <<hvars, envvars, disk, pc, nametable, loaded, nxt, raised,
                   reads, writes>>

\* the except clause of process_xml_file: log, re-raise; the future holds it
Raise(i) == [tasks EXCEPT ![i].future = "FINISHED", ![i].at = "idle",
                          ![i].outcome = "Failed"]

\* open(xml_file, "r"), f.read(), the substitution and the comparison
process_xml_file_read(i) ==
    /\ i \in 1..Len(tasks)
    /\ tasks[i].at = "read"
    /\ reads' = reads \cup {TaskPath(i)}
    /\ IF mode[TaskPath(i)] = "missing"
       THEN tasks' = Raise(i)
       ELSE LET content == disk[TaskPath(i)]
                new_content == Substitute(content, nametable)
            IN  IF Changed(new_content, content)
                THEN tasks' = [tasks EXCEPT ![i].content = content,
                                            ![i].new_content = new_content,
                                            ![i].at = "open_w"]
                ELSE tasks' = [tasks EXCEPT ![i].content = content,
                                            ![i].new_content = new_content,
                                            ![i].at = "idle",
                                            ![i].future = "FINISHED",
                                            ![i].outcome = "Skipped"]
    /\ UNCHANGED <<hvars, envvars, disk, pc, nametable, loaded, nxt, raised, writes>>

\* open(xml_file, "w"): truncates the file, or fails
process_xml_file_open_w(i) ==
    /\ i \in 1..Len(tasks)
    /\ tasks[i].at = "open_w"
    /\ writes' = writes \cup {TaskPath(i)}
    /\ IF mode[TaskPath(i)] = "ro"
       THEN /\ tasks' = Raise(i)
            /\ UNCHANGED disk
       ELSE /\ tasks' = [tasks EXCEPT ![i].at = "write"]
            /\ disk' = [disk EXCEPT ![TaskPath(i)] = <<>>]
    /\ UNCHANGED <<hvars, envvars, pc, nametable, loaded, nxt, raised, reads>>

\* f.write(new_content) and the close that flushes it
process_xml_file_write(i) ==
    /\ i \in 1..Len(tasks)
    /\ tasks[i].at = "write"
    /\ disk' = [disk EXCEPT ![TaskPath(i)] = tasks[i].new_content]
    /\ tasks' = [tasks EXCEPT ![i].at = "idle", ![i].future = "FINISHED",
                              ![i].outcome = "Written"]
    /\ UNCHANGED <<hvars, envvars, pc, nametable, loaded, nxt, raised, reads, writes>>

\* list(executor.map(...)): the result iterator takes the results in
\* submission order; a task's exception leaves the iterator, whose finally
\* clause cancels every future it still holds
result_iterator ==
    /\ pc = "collect"
    /\ tasks[nxt].future = "FINISHED"
    /\ IF tasks[nxt].outcome = "Failed"
       THEN /\ tasks' = [i \in 1..Len(tasks) |->
                            IF i > nxt /\ tasks[i].future = "PENDING"
                            THEN [tasks[i] EXCEPT !.future = "CANCELLED"]
                            ELSE tasks[i]]
            /\ raised' = TRUE
            /\ pc' = "shutdown"
            /\ UNCHANGED nxt
       ELSE /\ IF nxt = Len(tasks)
               THEN pc' = "shutdown" /\ UNCHANGED nxt
               ELSE nxt' = nxt + 1 /\ UNCHANGED pc
            /\ UNCHANGED <<tasks, raised>>
    /\ UNCHANGED <<hvars, envvars, disk, nametable, loaded, reads, writes>>

\* the with statement's exit, shutdown(wait=True), joins the workers; then
\* main shows "Success", or the raised exception reaches its except clause
executor_exit ==
    /\ pc = "shutdown"
    /\ \A i \in 1..Len(tasks) : tasks[i].future \in {"FINISHED", "CANCELLED"}
    /\ pc' = IF raised THEN "error" ELSE "done"
    /\ UNCHANGED <<hvars, envvars, disk, nametable, loaded, tasks, nxt, raised,
                   reads, writes>>

Next ==
    \/ main_no_selection
    \/ load_nametable
    \/ load_nametable_raises
    \/ process_files
    \/ \E i \in 1..MaxFiles : worker_run(i)
    \/ \E i \in 1..MaxFiles : process_xml_file_read(i)
    \/ \E i \in 1..MaxFiles : process_xml_file_open_w(i)
    \/ \E i \in 1..MaxFiles : process_xml_file_write(i)
    \/ result_iterator
    \/ executor_exit

Spec == Init /\ [][Next]_vars

SpecFile == InitFile /\ [][Next]_vars

\* ------------------------------------------------------------ the hasher
\* the Jenkins one-at-a-time hash on two 16-bit halves <<high, low>>, every
\* step reduced modulo 2^32, to compare joaat_hash with
RECURSIVE RefXor16(_, _)
RefXor16(a, b) ==
    IF a = 0 /\ b = 0 THEN 0
    ELSE ((a + b) % 2) + 2 * RefXor16(a \div 2, b \div 2)

RefAdd(x, y) ==
    <<(x[1] + y[1] + ((x[2] + y[2]) \div 65536)) % 65536, (x[2] + y[2]) % 65536>>

RefShl(x, n) ==
    <<((x[1] % (2^(16 - n))) * (2^n)) + (x[2] \div (2^(16 - n))),
      (x[2] % (2^(16 - n))) * (2^n)>>

RefShr(x, n) ==
    <<x[1] \div (2^n), ((x[1] % (2^n)) * (2^(16 - n))) + (x[2] \div (2^n))>>

RefXor(x, y) == <<RefXor16(x[1], y[1]), RefXor16(x[2], y[2])>>

RefMix(x, char) ==
    LET a == RefAdd(x, <<0, char>>)
        b == RefAdd(a, RefShl(a, 10))
    IN  RefXor(b, RefShr(b, 6))

RECURSIVE RefLoop(_, _, _)
RefLoop(x, text, i) ==
    IF i > Len(text) THEN x ELSE RefLoop(RefMix(x, text[i]), text, i + 1)

RefFinal(x) ==
    LET a == RefAdd(x, RefShl(x, 3))
        b == RefXor(a, RefShr(a, 11))
    IN  RefAdd(b, RefShl(b, 15))

RefHex(d) == IF d < 10 THEN 48 + d ELSE 55 + d

RefHex4(v) ==
    <<RefHex(v \div 4096), RefHex((v \div 256) % 16), RefHex((v \div 16) % 16),
      RefHex(v % 16)>>

RefToken(text) ==
    LET low == [k \in 1..Len(text) |->
                   IF text[k] \in 65..90 THEN text[k] + 32 ELSE text[k]]
        x == RefFinal(RefLoop(<<0, 0>>, low, 1))
    IN  <<104, 97, 115, 104, 95>> \o RefHex4(x[1]) \o RefHex4(x[2])

\* "hash_" and exactly 8 digits, each 0-9 or A-F
WellFormedToken(tok) ==
    /\ Len(tok) = 13
    /\ SubSeq(tok, 1, 5) = <<104, 97, 115, 104, 95>>
    /\ \A k \in 6..13 : tok[k] \in (48..57) \cup (65..70)

\* C8: joaat_hash wraps modulo 2^32 at every step: after each of its steps
\* the accumulator is in 0..2^32-1, and every result returned is the masked
\* one-at-a-time reference of its text, "hash_" and 8 zero-padded upper-case
\* hexadecimal digits.  (Results are returned only on reaching "idle".)
C8_WrapsAtEveryStep ==
    /\ InRange32(hash_value)
    /\ hpc = "idle" =>
          \A e \in hret : e[2] = RefToken(e[1]) /\ WellFormedToken(e[2])

\* the sum of line 26 exceeds 32 bits for some character of the text
WrapsInLoop(text) ==
    \E i \in 1..Len(text) :
        ~InRange32(Add(Line25(HashLoop(<<>>, SubSeq(lower(text), 1, i - 1), 1),
                              lower(text)[i]),
                       Shl(Line25(HashLoop(<<>>, SubSeq(lower(text), 1, i - 1), 1),
                                  lower(text)[i]), 10)))

\* a call has returned whose loop wrapped, and one whose result is zero-padded
C8_Witness ==
    /\ hpc = "idle"
    /\ \E e \in hret : WrapsInLoop(e[1]) /\ e[2] = RefToken(e[1])
    /\ \E e \in hret : e[2][6] = 48

\* a and b have the same length and differ at most in the case of letters
SameExceptCase(a, b) ==
    /\ Len(a) = Len(b)
    /\ \A k \in 1..Len(a) :
          \/ a[k] = b[k]
          \/ a[k] \in 65..90 /\ b[k] = a[k] + 32
          \/ b[k] \in 65..90 /\ a[k] = b[k] + 32

Submitted == 1..Len(tasks)
Returned == pc \in {"done", "error"}

\* the paths handed to process_files are pairwise distinct
DistinctPaths ==
    \A i \in 1..Len(xml_files) : \A j \in 1..Len(xml_files) :
        i # j => xml_files[i] # xml_files[j]

\* C1: when process_xml_file fails for one file, every other file of the
\* batch is still processed to completion before process_files returns: no
\* task is cancelled or left unrun because a sibling failed.  (Stated for
\* the batches of pairwise distinct files, where no task meets another.)
C1_SiblingsRunToCompletion ==
    (DistinctPaths /\ Returned /\ \E i \in Submitted : tasks[i].outcome = "Failed")
        => \A j \in Submitted : /\ tasks[j].future = "FINISHED"
                                /\ tasks[j].outcome \in {"Written", "Skipped", "Failed"}

\* C2: a per-file failure is not fatal: with the nametable loaded the run
\* ends completed, each file Failed, Written or Skipped; only a nametable
\* load failure puts the run in the error state.
C2_FileFailureNotFatal ==
    /\ pc = "error" => ~loaded
    /\ (Returned /\ loaded) =>
          \A i \in Submitted : tasks[i].outcome \in {"Written", "Skipped", "Failed"}

\* C5: process_xml_file writes a file if and only if the substituted content
\* differs from the content read, and a file none of whose tokens is in the
\* table is never opened for writing and keeps its content in every state.
C5_WritesOnlyWhenChanged ==
    /\ \A i \in Submitted :
          /\ tasks[i].outcome = "Written" => tasks[i].new_content # tasks[i].content
          /\ tasks[i].at \in {"open_w", "write"} =>
                tasks[i].new_content # tasks[i].content
          /\ tasks[i].outcome = "Skipped" => tasks[i].new_content = tasks[i].content
    /\ \A p \in Paths :
          (\A k \in 1..Len(disk0[p]) :
              MatchAt(disk0[p], k) => SubSeq(disk0[p], k, k + 12) \notin DOMAIN nametable)
          => p \notin writes /\ disk[p] = disk0[p]

\* the run is over, a file with an unknown token was skipped and never
\* opened for writing, and another file was written
C5_Witness ==
    /\ pc = "done"
    /\ \E i \in Submitted :
          /\ tasks[i].outcome = "Skipped"
          /\ \E k \in 1..Len(tasks[i].content) : MatchAt(tasks[i].content, k)
          /\ TaskPath(i) \notin writes
          /\ disk[TaskPath(i)] = disk0[TaskPath(i)]
    /\ \E j \in Submitted : tasks[j].outcome = "Written"

\* C6: if load_nametable fails the error reaches main and no target file is
\* read or written in that run; any read or write of a target file happens
\* only after load_nametable has returned normally.
C6_FailFastOnLoad ==
    /\ (reads \cup writes # {} \/ tasks # <<>>) => loaded
    /\ source = "unreadable" =>
          /\ ~loaded
          /\ pc \in {"start", "error", "returned"}
          /\ disk = disk0

\* the load failed with a readable file holding a known token selected, the
\* run ended in the error state and nothing was opened
C6_Witness ==
    /\ pc = "error"
    /\ source = "unreadable"
    /\ \E i \in 1..Len(xml_files) :
          mode[xml_files[i]] = "rw" /\ disk[xml_files[i]] = TokA
    /\ reads = {} /\ writes = {}

ExactTokenAt(c, k) ==
    /\ k + 12 <= Len(c)
    /\ SubSeq(c, k, k + 4) = <<104, 97, 115, 104, 95>>
    /\ \A j \in (k + 5)..(k + 12) :
          c[j] \in (48..57) \cup (65..70) \cup (97..102)
    /\ k + 13 <= Len(c) => c[k + 13] \notin (48..57) \cup (65..70) \cup (97..102)

\* C3: text in which "hash_" is followed by fewer or more than 8 hexadecimal
\* digits, has another character among the 8, or has a prefix in another
\* case, is left unchanged by the substitution.
C3_NearMatchesUntouched ==
    \A i \in Submitted :
        (\A k \in 1..Len(tasks[i].content) : ~ExactTokenAt(tasks[i].content, k))
            => tasks[i].new_content = tasks[i].content

\* line k of the nametable is the last one with its hash token
IsWinning(k) ==
    \A j \in (k + 1)..Len(lines) :
        strip(lines[j]) # <<>> /\ joaat_hash(strip(lines[j])) = joaat_hash(strip(lines[k]))
            => strip(lines[j]) = strip(lines[k])

\* C4: for every non-blank line L (trimmed) that is the winning entry of its
\* token, processing a file whose content is exactly joaat_hash(L) leaves the
\* file with content exactly L.
C4_RoundTrip ==
    \A i \in Submitted :
        tasks[i].outcome \in {"Written", "Skipped"} =>
            \A k \in 1..Len(lines) :
                ( /\ strip(lines[k]) # <<>>
                  /\ IsWinning(k)
                  /\ disk0[TaskPath(i)] = joaat_hash(strip(lines[k])) )
                => disk[TaskPath(i)] = strip(lines[k])

\* two different names collide, the file held their token, and it was
\* written with the later name
C4_Witness ==
    /\ pc = "done"
    /\ Len(lines) = 2
    /\ strip(lines[1]) # strip(lines[2])
    /\ joaat_hash(strip(lines[1])) = joaat_hash(strip(lines[2]))
    /\ tasks[1].outcome = "Written"
    /\ disk0[TaskPath(1)] = joaat_hash(strip(lines[2]))
    /\ disk[TaskPath(1)] = strip(lines[2])

HasLowerHex(tok) == \E k \in 6..Len(tok) : tok[k] \in 97..102

\* C10: every key of the table has upper-case hexadecimal digits only and the
\* lookup takes the matched text as it is, so content whose matched tokens
\* all contain a lower-case hexadecimal letter is left unchanged, even when
\* the upper-cased token is a key of the table.
C10_LowerCaseTokensInert ==
    /\ \A key \in DOMAIN nametable : WellFormedToken(key)
    /\ \A i \in Submitted :
          (\A k \in 1..Len(tasks[i].content) :
              MatchAt(tasks[i].content, k)
                  => HasLowerHex(SubSeq(tasks[i].content, k, k + 12)))
          => tasks[i].new_content = tasks[i].content

\* a file holding a matched lower-case token whose upper-case form is a key
\* of the table was read and left as it was
C10_Witness ==
    \E i \in Submitted :
        /\ tasks[i].outcome = "Skipped"
        /\ MatchAt(tasks[i].content, 1)
        /\ HasLowerHex(tasks[i].content)
        /\ UpperHex(tasks[i].content) \in DOMAIN nametable
        /\ disk[TaskPath(i)] = tasks[i].content

====
